---- MODULE Spec2Model ----
(***************************************************************************)
(* Model of docsifer's usage-counter aggregator (src/docsifer/analytics.py, *)
(* class Analytics) running on one asyncio event loop: tasks interleave     *)
(* only at their await points, so every action below is the code between    *)
(* two awaits of one task.                                                  *)
(***************************************************************************)
EXTENDS Integers, Sequences, FiniteSets, TLC

\* ------------------------------------------------------------------ bounds

\* total number of access() calls issued by the callers
MaxEvents == 2
\* number of stats() calls that may wait for the lock at the same time
MaxStatsWaiting == 1
\* total number of failing hincrby calls injected over a run
MaxFaults == 1
\* calls of _sync_from_redis made after the one of _initialize
MaxReloads == 1

\* ------------------------------------------------------------- constants

\* Analytics.__init__(max_retries=5); router.py keeps the default
max_retries == 5

Metrics == {"access", "tokens"}
\* flush and bootstrap both treat "access" first, then "tokens"
MetricOrder == <<"access", "tokens">>
LABEL == "docsifer"
Labels == {"docsifer", "legacy"}

\* the tasks of the event loop
SyncIds == {"sync1", "sync2"}
INIT == "init"
NOBODY == "none"
Tasks == {INIT} \cup SyncIds

\* token counts an access() call is given
TokenVals == {0, 2}

\* wall-clock dates (UTC) the run passes through, in order
Calendar == << [year |-> 2024, month |-> 12, day |-> 31],
               [year |-> 2025, month |-> 1, day |-> 1] >>

\* ------------------------------------------------- Analytics._get_period_keys

Digits == <<"0", "1", "2", "3", "4", "5", "6", "7", "8", "9">>
Digit(n) == Digits[n + 1]
\* strftime %m, %d, %U: two digits, zero padded
Pad2(n) == Digit((n \div 10) % 10) \o Digit(n % 10)
\* strftime %Y and str(now.year) for the four-digit years of the calendar
Str4(n) == Digit((n \div 1000) % 10) \o Digit((n \div 100) % 10)
             \o Digit((n \div 10) % 10) \o Digit(n % 10)

IsLeap(y) == (y % 4 = 0 /\ y % 100 # 0) \/ y % 400 = 0
DaysInMonth(y, m) ==
    IF m = 2 THEN (IF IsLeap(y) THEN 29 ELSE 28)
    ELSE IF m \in {4, 6, 9, 11} THEN 30 ELSE 31
RECURSIVE DaysBeforeMonth(_, _)
DaysBeforeMonth(y, m) ==
    IF m = 1 THEN 0 ELSE DaysBeforeMonth(y, m - 1) + DaysInMonth(y, m - 1)
\* tm_yday: 0 for January 1st
YearDay(dt) == DaysBeforeMonth(dt.year, dt.month) + dt.day - 1
\* proleptic Gregorian ordinal, 1 for 0001-01-01 (a Monday)
Ordinal(dt) ==
    LET y == dt.year - 1
    IN  365 * y + (y \div 4) - (y \div 100) + (y \div 400) + YearDay(dt) + 1
\* tm_wday: 0 for Sunday
WeekDaySun(dt) == Ordinal(dt) % 7
\* strftime %U: week of the year, weeks start on Sunday, days before the
\* first Sunday are in week 0
WeekOfYearU(dt) == (YearDay(dt) + 7 - WeekDaySun(dt)) \div 7

DayKey(dt) == Str4(dt.year) \o "-" \o Pad2(dt.month) \o "-" \o Pad2(dt.day)
\* a slip: the week key without the year
WeekKeyNoYear(dt) == "W" \o Pad2(WeekOfYearU(dt))
WeekKey(dt) == Str4(dt.year) \o "-W" \o Pad2(WeekOfYearU(dt))
MonthKey(dt) == Str4(dt.year) \o "-" \o Pad2(dt.month)
YearKey(dt) == Str4(dt.year)
TOTAL == "total"
\* the five keys, in the order access() walks them
PeriodKeys(dt) == <<DayKey(dt), WeekKey(dt), MonthKey(dt), YearKey(dt), TOTAL>>

\* ------------------------------------- defaultdict(lambda: defaultdict(int))

\* A dict keeps its keys in insertion order: keys is that order, val the
\* mapping period -> (label -> count).
EmptyDict == [keys |-> <<>>, val |-> <<>>]
EmptyTables == [m \in Metrics |-> EmptyDict]

HasKey(d, k) == k \in DOMAIN d.val
\* a read that does not insert: the stored count, 0 for a missing cell
Cell(d, k, l) ==
    IF HasKey(d, k) /\ l \in DOMAIN d.val[k] THEN d.val[k][l] ELSE 0
\* d[k][l] = v
SetCell(d, k, l, v) ==
    LET inner == IF HasKey(d, k) THEN d.val[k] ELSE <<>>
        inner2 == [x \in DOMAIN inner \cup {l} |-> IF x = l THEN v ELSE inner[x]]
    IN  [keys |-> IF HasKey(d, k) THEN d.keys ELSE Append(d.keys, k),
         val  |-> [x \in DOMAIN d.val \cup {k} |->
                      IF x = k THEN inner2 ELSE d.val[x]]]
\* d[k][l] += n
AddCell(d, k, l, n) == SetCell(d, k, l, Cell(d, k, l) + n)

\* "analytics:{metric}:{period}"
RedisKey(m, period) == "analytics:" \o m \o ":" \o period
ScanPrefix(m) == "analytics:" \o m \o ":"
\* key.replace("analytics:<metric>:", "") on a key that starts with the prefix
PeriodOfKey(m, key) ==
    IF Len(key) >= Len(ScanPrefix(m))
         /\ SubSeq(key, 1, Len(ScanPrefix(m))) = ScanPrefix(m)
    THEN SubSeq(key, Len(ScanPrefix(m)) + 1, Len(key))
    ELSE key


\* ------------------------------------------------------ the remote store

\* scan page size of the store (the code's count=1000 is only a hint)
PageSize == 1

\* Redis hashes: key -> (field -> integer value)
EmptyStore == <<>>
\* what earlier runs of the service left behind: two accesses that counted
\* no tokens (a zero amount is never sent) and one under an older label
PriorStore ==
    (RedisKey("access", TOTAL) :> ((LABEL :> 2) @@ ("legacy" :> 1)))
InitStores == {PriorStore}

RemoteVal(store, key, l) ==
    IF key \in DOMAIN store /\ l \in DOMAIN store[key] THEN store[key][l] ELSE 0
\* HINCRBY key field amount
Hincrby(store, key, l, n) ==
    LET h == IF key \in DOMAIN store THEN store[key] ELSE <<>>
        h2 == [x \in DOMAIN h \cup {l} |->
                  IF x = l THEN RemoteVal(store, key, l) + n ELSE h[x]]
    IN  [x \in DOMAIN store \cup {key} |-> IF x = key THEN h2 ELSE store[x]]
\* the keys SCAN MATCH "analytics:<metric>:*" walks
MatchingKeys(store, m) ==
    {key \in DOMAIN store :
        Len(key) >= Len(ScanPrefix(m))
        /\ SubSeq(key, 1, Len(ScanPrefix(m))) = ScanPrefix(m)}
\* the orders in which a page can list the keys of S
Orders(S) ==
    {q \in [1..Cardinality(S) -> S] : \A i, j \in DOMAIN q : q[i] = q[j] => i = j}
\* the pages one SCAN call can return while the keys of unseen are left
Pages(unseen) ==
    UNION {Orders(S) : S \in {T \in SUBSET unseen :
              Cardinality(T) = (IF Cardinality(unseen) < PageSize
                                THEN Cardinality(unseen) ELSE PageSize)}}

\* ------------------------------------------------------------------ state

VARIABLES
    now,             \* index into Calendar: datetime.utcnow()
    redis_client,    \* self.redis_client: the handle in use
    remote,          \* the hashes of the remote store
    current_totals,  \* self.current_totals
    new_increments,  \* self.new_increments
    lock,            \* self.lock: holder and FIFO of waiting tasks
    pc,              \* where the bootstrap task and the periodic tasks are suspended
    boot,            \* locals of _sync_from_redis
    sync,            \* locals of _sync_to_redis / _handle_redis_reconnection
    outcome,         \* the call of access() or stats() that ended in the last
                     \* step, and how it ended
    snap,            \* what the stats() call that returned in the last step returned
    nCalls,          \* access() calls issued so far
    faults,          \* failing hincrby calls so far
    applied,         \* history: how many access events of each kind were
                     \* applied since the tables were last reset
    baseline,        \* history: current_totals when the bootstrap attempt ended
    fl,              \* history: the flush cycle in progress or just ended
    okMark,          \* history: whether the last flush cycle succeeded, and the
                     \* remote store and the events applied when the last
                     \* successful one ended
    critical,        \* the number of logger.critical events emitted
    held,            \* a value stats() returned that its caller still holds
    loads,           \* the calls of _sync_from_redis made after _initialize
    probe,           \* two timestamps and the period keys derived for them
    req,             \* a /convert request and how far its handler has come
    job              \* a call of _convert_sync, the files on disk and its position

vars == <<now, redis_client, remote, current_totals, new_increments, lock, pc,
          boot, sync, outcome, snap, nCalls, faults, applied,
          baseline, fl, okMark, critical, held, loads, probe, req, job>>
\* what only the callers of the later sections change
callers == <<held, loads, probe, req, job>>

\* an access event: the date its keys were computed at, and its token count
EventKinds == (1..Len(Calendar)) \X TokenVals
NoEvents == [e \in EventKinds |-> 0]

NoOutcome == [op |-> "none", how |-> "none"]
NoSnap == [taken |-> FALSE]
NoBoot == [outcome |-> "none", m |-> 0, cursor |-> 0, unseen |-> {}, page |-> <<>>]
NoSync == [i |-> 0, retry_count |-> 0, delay |-> 0]
NoMark == [valid |-> FALSE, remote |-> EmptyStore, applied |-> NoEvents]
NoFlush == [outcome |-> "none", start |-> EmptyTables, issued |-> <<>>,
            prev |-> NoMark]
\* history: the record of a flush cycle is kept while it runs and in the
\* state it ends in
Settled(f) == IF f.outcome = "running" THEN f ELSE NoFlush

\* stats(): {metric: {period: dict(models)}}, a copy without the defaultdicts
StatsCopy(tabs) ==
    [m \in Metrics |-> [k \in DOMAIN tabs[m].val |->
        [l \in DOMAIN tabs[m].val[k] |-> tabs[m].val[k][l]]]]
StatsVal(st, m, k, l) ==
    IF k \in DOMAIN st[m] /\ l \in DOMAIN st[m][k] THEN st[m][k][l] ELSE 0

NoHeld == [keeper |-> FALSE, kept |-> FALSE]
NoLoads == [n |-> 0, first |-> [valid |-> FALSE]]
NoProbe == [done |-> FALSE]
NoReq == [pc |-> "none"]
NoJob == [pc |-> "none"]

\* the state __init__ leaves, the remote store being one of stores
InitWith(stores) ==
    /\ now = 1
    /\ redis_client = [gen |-> 0, closed |-> FALSE]
    /\ remote \in stores
    /\ current_totals = EmptyTables
    /\ new_increments = EmptyTables
    /\ lock = [holder |-> NOBODY, waiters |-> <<>>]
    /\ pc = [t \in Tasks |-> IF t = INIT THEN "created" ELSE "unborn"]
    /\ boot = NoBoot
    /\ sync = [t \in SyncIds |-> NoSync]
    /\ outcome = NoOutcome
    /\ snap = NoSnap
    /\ nCalls = 0
    /\ faults = 0
    /\ applied = NoEvents
    /\ baseline = StatsCopy(EmptyTables)
    /\ fl = NoFlush
    /\ okMark = NoMark
    /\ critical = 0

InitAnalytics == InitWith(InitStores)

Init ==
    /\ InitAnalytics
    /\ held = NoHeld
    /\ loads = NoLoads
    /\ probe = NoProbe
    /\ req = NoReq
    /\ job = NoJob

Range(q) == {q[i] : i \in DOMAIN q}

\* ------------------------------------------------------------ asyncio.Lock

\* acquire() returns at once only when the lock is free and nobody waits
LockFree == lock.holder = NOBODY /\ lock.waiters = <<>>
\* release() wakes the first waiter, which then owns the lock
IsWoken == lock.holder = NOBODY /\ lock.waiters # <<>>
Woken == Head(lock.waiters)
Enqueued(w) == [lock EXCEPT !.waiters = Append(@, w)]
\* the lock after a task went through its critical section without suspending
Passed == IF IsWoken THEN [lock EXCEPT !.waiters = Tail(@)] ELSE lock
\* the lock while task t holds it across an await
HeldBy(t) ==
    IF IsWoken THEN [holder |-> t, waiters |-> Tail(lock.waiters)]
    ELSE [lock EXCEPT !.holder = t]
Released == [lock EXCEPT !.holder = NOBODY]

\* ---------------------------------------------------------- access, stats

\* the loop of access() over its five periods, on one pair of tables
RECURSIVE RecordInto(_, _, _)
RecordInto(tabs, keys, tokens) ==
    IF keys = <<>> THEN tabs
    ELSE RecordInto([tabs EXCEPT !["access"] = AddCell(@, Head(keys), LABEL, 1),
                                 !["tokens"] = AddCell(@, Head(keys), LABEL, tokens)],
                    Tail(keys), tokens)

\* a slip: the all-time bucket is left out of the new usage
RecordIncrementsNoTotal(tabs, keys, tokens) ==
    RecordInto(tabs, SubSeq(keys, 1, Len(keys) - 1), tokens)
\* lines 98-99: the new usage
RecordIncrements(tabs, keys, tokens) == RecordInto(tabs, keys, tokens)
\* lines 102-103: the absolute totals
RecordTotals(tabs, keys, tokens) == RecordInto(tabs, keys, tokens)

\* a slip: access() fails while the client is being reconnected
AccessOutcomeNeedsRemote(client, syncpcs) ==
    IF \E t \in SyncIds : syncpcs[t] \in {"close", "backoff"}
    THEN "raised" ELSE "returned"
\* how a call of access() ends: nothing in it reads the client or the
\* state of the periodic task
AccessOutcome(client, syncpcs) == "returned"

\* the body of access() under the lock
AccessBody(keys, tokens, date) ==
    /\ new_increments' = RecordIncrements(new_increments, keys, tokens)
    /\ current_totals' = RecordTotals(current_totals, keys, tokens)
    /\ outcome' = [op |-> "access", how |-> AccessOutcome(redis_client, pc)]
    /\ applied' = [applied EXCEPT ![<<date, tokens>>] = @ + 1]

\* access(tokens), one task per call: the keys are computed before the lock
\* is asked for
AccessCall(tokens) ==
    /\ nCalls < MaxEvents
    /\ nCalls' = nCalls + 1
    /\ LET keys == PeriodKeys(Calendar[now])
       IN  IF LockFree
           THEN /\ AccessBody(keys, tokens, now)
                /\ UNCHANGED lock
           ELSE /\ lock' = Enqueued([op |-> "access", tokens |-> tokens,
                                     keys |-> keys, date |-> now])
                /\ outcome' = NoOutcome
                /\ UNCHANGED <<new_increments, current_totals, applied>>
    /\ UNCHANGED <<now, redis_client, remote, pc, boot, sync, faults,
                   baseline, okMark>>
    /\ snap' = NoSnap
    /\ fl' = Settled(fl)
    /\ UNCHANGED <<critical, callers>>

\* a waiting access() is given the lock
AccessResume ==
    /\ IsWoken
    /\ Woken.op = "access"
    /\ AccessBody(Woken.keys, Woken.tokens, Woken.date)
    /\ lock' = Passed
    /\ UNCHANGED <<now, redis_client, remote, pc, boot, sync, nCalls, faults, baseline, okMark>>
    /\ snap' = NoSnap
    /\ fl' = Settled(fl)
    /\ UNCHANGED <<critical, callers>>

RECURSIVE SumOver(_, _, _)
SumOver(S, f(_), evs) ==
    IF S = {} THEN 0
    ELSE LET e == CHOOSE x \in S : TRUE
         IN  evs[e] * f(e) + SumOver(S \ {e}, f, evs)
One(e) == 1
TokensOf(e) == e[2]
\* history: the number of events in evs, and the sum of their token counts
CountEvents(evs) == SumOver(EventKinds, One, evs)
SumTokens(evs) == SumOver(EventKinds, TokensOf, evs)

\* history, taken when a stats() call starts: the events whose access() has
\* returned, and whether no bootstrap and no access() is under way
Expectation ==
    [clean   |-> pc[INIT] \in {"created", "done"}
                   /\ \A i \in DOMAIN lock.waiters : lock.waiters[i].op # "access",
     applied |-> applied]

StatsWaiting ==
    Cardinality({i \in DOMAIN lock.waiters : lock.waiters[i].op = "stats"})

\* a slip: stats() copies the unflushed increments, not the totals
StatsBodyOfIncrements(tabs) == StatsCopy(new_increments)
\* the value stats() builds under the lock
StatsBody(tabs) == StatsCopy(tabs)

\* a slip: "period: models" for "period: dict(models)", so the value
\* returned shares every inner dict with current_totals
SharedCellsAll(tabs) ==
    UNION {{<<m, k>> : k \in DOMAIN tabs[m].val} : m \in Metrics}
\* the inner dicts the value returned shares with current_totals: the outer
\* dicts are new and dict(models) copies each inner one
SharedCells(tabs) == {}
\* what the holder of a returned value reads in it now: a shared inner dict
\* shows its present contents
View(h) ==
    [m \in Metrics |-> [k \in DOMAIN h.seen[m] |->
        IF <<m, k>> \in h.refs THEN current_totals[m].val[k] ELSE h.seen[m][k]]]
\* the caller that keeps what it gets keeps the first value returned
Keep(val, tabs) ==
    IF held.keeper /\ ~held.kept
    THEN [keeper |-> TRUE, kept |-> TRUE, val |-> val, seen |-> val,
          refs |-> SharedCells(tabs)]
    ELSE held
\* current_totals is replaced by new dicts: what the holder shared with the
\* old ones stays as it is
Detach(h) == IF h.kept THEN [h EXCEPT !.seen = View(h), !.refs = {}] ELSE h

\* stats(), one task per call
StatsCall ==
    /\ IF LockFree
       THEN /\ snap' = [taken |-> TRUE, val |-> StatsBody(current_totals),
                        expect |-> Expectation]
            /\ outcome' = [op |-> "stats", how |-> "returned"]
            /\ held' = Keep(StatsBody(current_totals), current_totals)
            /\ UNCHANGED lock
       ELSE /\ StatsWaiting < MaxStatsWaiting
            /\ lock' = Enqueued([op |-> "stats", expect |-> Expectation])
            /\ snap' = NoSnap
            /\ outcome' = NoOutcome
            /\ held' = held
    /\ UNCHANGED <<now, redis_client, remote, current_totals, new_increments, pc,
                   boot, sync, nCalls, faults, applied, baseline, okMark>>
    /\ fl' = Settled(fl)
    /\ UNCHANGED <<critical, loads, probe, req, job>>

\* a waiting stats() is given the lock
StatsResume ==
    /\ IsWoken
    /\ Woken.op = "stats"
    /\ snap' = [taken |-> TRUE, val |-> StatsBody(current_totals),
                expect |-> Woken.expect]
    /\ outcome' = [op |-> "stats", how |-> "returned"]
    /\ held' = Keep(StatsBody(current_totals), current_totals)
    /\ lock' = Passed
    /\ UNCHANGED <<now, redis_client, remote, current_totals, new_increments, pc,
                   boot, sync, nCalls, faults, applied, baseline, okMark>>
    /\ fl' = Settled(fl)
    /\ UNCHANGED <<critical, loads, probe, req, job>>

\* the wall clock passes midnight (UTC)
Tick ==
    /\ now < Len(Calendar)
    /\ now' = now + 1
    /\ UNCHANGED <<redis_client, remote, current_totals, new_increments, lock, pc,
                   boot, sync, nCalls, faults, applied, baseline, okMark>>
    /\ snap' = NoSnap
    /\ fl' = Settled(fl)
    /\ outcome' = NoOutcome
    /\ UNCHANGED <<critical, callers>>

\* ------------------------------------------ _initialize, _sync_from_redis

\* a slip: the periodic task is created in the try block and again after it
SpawnSyncTwice(pcs) == [t \in DOMAIN pcs |-> IF t \in SyncIds THEN "sleep" ELSE pcs[t]]
\* asyncio.create_task(self._start_sync_task()): the new task runs to its
\* first await, the sleep
SpawnSync(pcs) == [pcs EXCEPT !["sync1"] = "sleep"]

\* a different design: the loaded counts are merged into what the cell held
\* before the call instead of replacing it
RECURSIVE LoadHashMerging(_, _, _)
LoadHashMerging(d, period, data) ==
    IF DOMAIN data = {} THEN d
    ELSE LET l == CHOOSE x \in DOMAIN data : TRUE
             rest == [x \in DOMAIN data \ {l} |-> data[x]]
             before == StatsVal(baseline, MetricOrder[boot.m], period, l)
         IN  LoadHashMerging(SetCell(d, period, l, before + data[l]), period, rest)
\* lines 163-164 / 192-193: every field of one hash goes into current_totals
RECURSIVE LoadHash(_, _, _)
LoadHash(d, period, data) ==
    IF DOMAIN data = {} THEN d
    ELSE LET l == CHOOSE x \in DOMAIN data : TRUE
             rest == [x \in DOMAIN data \ {l} |-> data[x]]
         IN  LoadHash(SetCell(d, period, l, data[l]), period, rest)

\* the bootstrap attempt ends: the lock is released, _initialize logs the
\* outcome and creates the periodic task (a direct call of _sync_from_redis
\* creates none)
BootEnds(how, totals) ==
    /\ lock' = Released
    /\ pc' = [(IF loads.n = 0 THEN SpawnSync(pc) ELSE pc) EXCEPT ![INIT] = "done"]
    /\ boot' = [NoBoot EXCEPT !.outcome = how]
    /\ baseline' = StatsCopy(totals)

\* a slip: one SCAN per metric, the returned cursor is not followed
BootContinueOnePage(b, totals) ==
    IF b.page # <<>>
    THEN /\ boot' = b
         /\ pc' = [pc EXCEPT ![INIT] = "hgetall"]
         /\ UNCHANGED <<lock, baseline>>
    ELSE IF b.m < Len(MetricOrder)
    THEN /\ boot' = [b EXCEPT !.m = b.m + 1, !.cursor = 0,
                              !.unseen = MatchingKeys(remote, MetricOrder[b.m + 1])]
         /\ pc' = [pc EXCEPT ![INIT] = "scan"]
         /\ UNCHANGED <<lock, baseline>>
    ELSE BootEnds("ok", totals)
\* what _sync_from_redis does next, with locals b, up to its next await
BootContinue(b, totals) ==
    IF b.page # <<>>
    THEN /\ boot' = b
         /\ pc' = [pc EXCEPT ![INIT] = "hgetall"]
         /\ UNCHANGED <<lock, baseline>>
    ELSE IF b.cursor # 0
    THEN /\ boot' = b
         /\ pc' = [pc EXCEPT ![INIT] = "scan"]
         /\ UNCHANGED <<lock, baseline>>
    ELSE IF b.m < Len(MetricOrder)
    THEN /\ boot' = [b EXCEPT !.m = b.m + 1, !.cursor = 0,
                              !.unseen = MatchingKeys(remote, MetricOrder[b.m + 1])]
         /\ pc' = [pc EXCEPT ![INIT] = "scan"]
         /\ UNCHANGED <<lock, baseline>>
    ELSE BootEnds("ok", totals)

\* _sync_from_redis up to its first await: the lock is taken, both
\* structures are reset and the first SCAN is sent
SyncFromRedisEnter ==
    /\ LockFree
    /\ lock' = HeldBy(INIT)
    /\ current_totals' = EmptyTables
    /\ new_increments' = EmptyTables
    /\ applied' = NoEvents
    /\ held' = Detach(held)
    /\ boot' = [outcome |-> "running", m |-> 1, cursor |-> 0,
                unseen |-> MatchingKeys(remote, MetricOrder[1]), page |-> <<>>]
    /\ pc' = [pc EXCEPT ![INIT] = "scan"]
    /\ UNCHANGED <<now, redis_client, remote, sync, nCalls, faults, baseline, okMark>>
    /\ outcome' = NoOutcome
    /\ snap' = NoSnap
    /\ fl' = Settled(fl)

\* a slip: _initialize creates the sync task before it awaits the load
BootStartSpawnsFirst ==
    /\ pc[INIT] = "created"
    /\ LockFree
    /\ lock' = HeldBy(INIT)
    /\ current_totals' = EmptyTables
    /\ new_increments' = EmptyTables
    /\ applied' = NoEvents
    /\ held' = Detach(held)
    /\ boot' = [outcome |-> "running", m |-> 1, cursor |-> 0,
                unseen |-> MatchingKeys(remote, MetricOrder[1]), page |-> <<>>]
    /\ pc' = [SpawnSync(pc) EXCEPT ![INIT] = "scan"]
    /\ UNCHANGED <<now, redis_client, remote, sync, nCalls, faults, baseline, okMark>>
    /\ outcome' = NoOutcome
    /\ snap' = NoSnap
    /\ fl' = Settled(fl)
    /\ UNCHANGED <<critical, loads, probe, req, job>>
\* the task created by __init__ runs _initialize
BootStart ==
    /\ pc[INIT] = "created"
    /\ SyncFromRedisEnter
    /\ UNCHANGED <<critical, loads, probe, req, job>>

\* a SCAN call returns (cursor, keys)
ScanReturns ==
    /\ pc[INIT] = "scan"
    /\ \E page \in Pages(boot.unseen) :
         LET rest == boot.unseen \ Range(page)
         IN  BootContinue([boot EXCEPT !.cursor = IF rest = {} THEN 0 ELSE 1,
                                       !.unseen = rest, !.page = page],
                          current_totals)
    /\ UNCHANGED <<now, redis_client, remote, current_totals, new_increments,
                   sync, nCalls, faults, applied, okMark>>
    /\ outcome' = NoOutcome
    /\ snap' = NoSnap
    /\ fl' = Settled(fl)
    /\ UNCHANGED <<critical, callers>>

\* an HGETALL call returns the hash of the first key of the page
HgetallReturns ==
    /\ pc[INIT] = "hgetall"
    /\ LET key == Head(boot.page)
           m == MetricOrder[boot.m]
           totals == [current_totals EXCEPT
                         ![m] = LoadHash(@, PeriodOfKey(m, key), remote[key])]
       IN  /\ current_totals' = totals
           /\ BootContinue([boot EXCEPT !.page = Tail(@)], totals)
    /\ UNCHANGED <<now, redis_client, remote, new_increments, sync, nCalls, faults, applied, okMark>>
    /\ outcome' = NoOutcome
    /\ snap' = NoSnap
    /\ fl' = Settled(fl)
    /\ UNCHANGED <<critical, callers>>

\* a SCAN or HGETALL call raises: the exception leaves _sync_from_redis and
\* is caught and logged by _initialize
BootFails ==
    /\ pc[INIT] \in {"scan", "hgetall"}
    /\ BootEnds("failed", current_totals)
    /\ UNCHANGED <<now, redis_client, remote, current_totals, new_increments,
                   sync, nCalls, faults, applied, okMark>>
    /\ outcome' = NoOutcome
    /\ snap' = NoSnap
    /\ fl' = Settled(fl)
    /\ UNCHANGED <<critical, callers>>

\* ------------------------------------- _start_sync_task, _sync_to_redis

LabelOrder == <<"docsifer", "legacy">>

\* a slip: the test for a zero count is missing
RECURSIVE CallsOfLabelsWithZeros(_, _, _, _)
CallsOfLabelsWithZeros(m, d, k, ls) ==
    IF ls = <<>> THEN <<>>
    ELSE (IF Head(ls) \in DOMAIN d.val[k]
          THEN <<[m |-> m, period |-> k, label |-> Head(ls),
                  amount |-> d.val[k][Head(ls)]]>>
          ELSE <<>>) \o CallsOfLabelsWithZeros(m, d, k, Tail(ls))
\* the HINCRBY calls of one metric: the non-zero cells, in dict order
RECURSIVE CallsOfLabels(_, _, _, _)
CallsOfLabels(m, d, k, ls) ==
    IF ls = <<>> THEN <<>>
    ELSE (IF Head(ls) \in DOMAIN d.val[k] /\ d.val[k][Head(ls)] # 0
          THEN <<[m |-> m, period |-> k, label |-> Head(ls),
                  amount |-> d.val[k][Head(ls)]]>>
          ELSE <<>>) \o CallsOfLabels(m, d, k, Tail(ls))
RECURSIVE CallsOf(_, _, _)
CallsOf(m, d, keys) ==
    IF keys = <<>> THEN <<>>
    ELSE CallsOfLabels(m, d, Head(keys), LabelOrder) \o CallsOf(m, d, Tail(keys))
\* a slip: the "tokens" loop is missing
FlushCallsAccessOnly(incs) ==
    CallsOf("access", incs["access"], incs["access"].keys)
\* all HINCRBY calls of one flush: "access" first, then "tokens"
FlushCalls(incs) ==
    CallsOf("access", incs["access"], incs["access"].keys)
      \o CallsOf("tokens", incs["tokens"], incs["tokens"].keys)

\* a different design: the lock is given up before the HINCRBY calls
FlushLockReleased(t) == Passed
\* the lock during the HINCRBY calls of task t
FlushLock(t) == HeldBy(t)

\* a different design: a failed flush drops what it was flushing
AfterFailedFlushDropped(incs) == EmptyTables
\* new_increments once a HINCRBY call has raised: the except clause only
\* logs and re-raises
AfterFailedFlush(incs) == incs
\* a slip: the reset after a successful flush is missing
AfterFlushKept(incs) == incs
\* new_increments once every HINCRBY call has returned (lines 240-243)
AfterFlush(incs) == EmptyTables

\* every call succeeded: new_increments is reset, the lock released and the
\* loop of _start_sync_task goes back to its sleep
FlushSucceeds(t, store, start, issued) ==
    /\ new_increments' = AfterFlush(new_increments)
    /\ pc' = [pc EXCEPT ![t] = "sleep"]
    /\ sync' = [sync EXCEPT ![t] = NoSync]
    /\ fl' = [outcome |-> "ok", start |-> start, issued |-> issued,
              prev |-> okMark]
    /\ okMark' = [valid |-> TRUE, remote |-> store, applied |-> applied]

\* _sync_to_redis once it has the lock, up to its first HINCRBY
FlushEnter(t) ==
    IF FlushCalls(new_increments) = <<>>
    THEN /\ FlushSucceeds(t, remote, new_increments, <<>>)
         /\ lock' = Passed
    ELSE /\ lock' = FlushLock(t)
         /\ pc' = [pc EXCEPT ![t] = "hincrby"]
         /\ sync' = [sync EXCEPT ![t] = [NoSync EXCEPT !.i = 1]]
         /\ fl' = [outcome |-> "running", start |-> new_increments,
                   issued |-> <<>>, prev |-> NoMark]
         /\ UNCHANGED <<new_increments, okMark>>

\* asyncio.sleep(sync_interval) is over: _sync_to_redis asks for the lock
TimerFires(t) ==
    /\ pc[t] = "sleep"
    /\ IF LockFree
       THEN FlushEnter(t)
       ELSE /\ lock' = Enqueued([op |-> "flush", task |-> t])
            /\ pc' = [pc EXCEPT ![t] = "lock_wait"]
            /\ fl' = Settled(fl)
            /\ UNCHANGED <<new_increments, sync, okMark>>
    /\ UNCHANGED <<now, redis_client, remote, current_totals, boot, nCalls, faults, applied, baseline>>
    /\ outcome' = NoOutcome
    /\ snap' = NoSnap
    /\ UNCHANGED <<critical, callers>>

\* a waiting _sync_to_redis is given the lock
FlushResume(t) ==
    /\ pc[t] = "lock_wait"
    /\ IsWoken
    /\ Woken = [op |-> "flush", task |-> t]
    /\ FlushEnter(t)
    /\ UNCHANGED <<now, redis_client, remote, current_totals, boot, nCalls, faults, applied, baseline>>
    /\ outcome' = NoOutcome
    /\ snap' = NoSnap
    /\ UNCHANGED <<critical, callers>>

\* the outstanding HINCRBY call returns
HincrbyReturns(t) ==
    /\ pc[t] = "hincrby"
    /\ LET calls == FlushCalls(new_increments)
           c == calls[sync[t].i]
           store == Hincrby(remote, RedisKey(c.m, c.period), c.label, c.amount)
           issued == Append(fl.issued, c)
       IN  /\ remote' = store
           /\ IF sync[t].i = Len(calls)
              THEN /\ FlushSucceeds(t, store, fl.start, issued)
                   /\ lock' = Released
              ELSE /\ sync' = [sync EXCEPT ![t].i = @ + 1]
                   /\ fl' = [fl EXCEPT !.issued = issued]
                   /\ UNCHANGED <<new_increments, pc, lock, okMark>>
    /\ UNCHANGED <<now, redis_client, current_totals, boot, nCalls,
                   faults, applied, baseline>>
    /\ outcome' = NoOutcome
    /\ snap' = NoSnap
    /\ UNCHANGED <<critical, callers>>

\* a slip: the loop of _start_sync_task calls the reconnection again
AfterReconnectionAgain == "close"
\* where _start_sync_task goes once _handle_redis_reconnection has returned:
\* back to the top of its loop, the sleep of sync_interval
AfterReconnection == "sleep"

\* a different design: a new client starts from an empty table that a
\* resynchronisation is to fill
TotalsAfterReconnectReloaded(tabs) == EmptyTables
\* current_totals after a new client was created: the method assigns
\* self.redis_client and nothing else
TotalsAfterReconnect(tabs) == tabs

\* a slip: the except branch resets the table along with logging
TotalsAfterFailedFlushReset(tabs) == EmptyTables
\* current_totals after a HINCRBY call has raised: _sync_to_redis never
\* assigns it
TotalsAfterFailedFlush(tabs) == tabs

\* a slip: the critical event is logged however the loop ended
LoggedAfterReconnectAlways(n) == n + 1
\* the critical events logged once an attempt has succeeded: the return of
\* line 275 leaves the method before line 282
LoggedAfterReconnect(n) == n
\* the critical events logged once the loop has run out of attempts
LoggedAfterExhaustion(n) == n + 1

\* a slip: the exception is caught around the single call, so the loop goes
\* on with the next cell
HincrbyFailsSwallowed(t) ==
    /\ pc[t] = "hincrby"
    /\ faults < MaxFaults
    /\ faults' = faults + 1
    /\ IF sync[t].i = Len(FlushCalls(new_increments))
       THEN /\ FlushSucceeds(t, remote, fl.start, fl.issued)
            /\ lock' = Released
       ELSE /\ sync' = [sync EXCEPT ![t].i = @ + 1]
            /\ UNCHANGED <<new_increments, pc, lock, okMark, fl>>
    /\ UNCHANGED <<now, redis_client, remote, current_totals, boot, nCalls, applied,
                   baseline, critical, callers>>
    /\ outcome' = NoOutcome
    /\ snap' = NoSnap
\* the outstanding HINCRBY call raises: _sync_to_redis logs and re-raises,
\* the lock is released, _start_sync_task calls _handle_redis_reconnection,
\* which runs to its first await, the close of the client
HincrbyFails(t) ==
    /\ pc[t] = "hincrby"
    /\ faults < MaxFaults
    /\ faults' = faults + 1
    /\ new_increments' = AfterFailedFlush(new_increments)
    /\ lock' = Released
    /\ fl' = [fl EXCEPT !.outcome = "failed"]
    /\ okMark' = [okMark EXCEPT !.valid = FALSE, !.remote = EmptyStore]
    /\ sync' = [sync EXCEPT ![t] = [i |-> 0, retry_count |-> 0, delay |-> 1]]
    /\ pc' = [pc EXCEPT ![t] = IF 0 < max_retries THEN "close" ELSE AfterReconnection]
    /\ current_totals' = TotalsAfterFailedFlush(current_totals)
    /\ UNCHANGED <<now, redis_client, remote, boot, nCalls, applied, baseline>>
    /\ outcome' = NoOutcome
    /\ snap' = NoSnap
    /\ critical' = IF 0 < max_retries THEN critical ELSE LoggedAfterExhaustion(critical)
    /\ UNCHANGED callers

\* ----------------------------------------------- _handle_redis_reconnection

\* a slip: the return after the new client is missing, the loop goes on
\* to its next attempt
CloseReturnsNoReturn(t) ==
    /\ pc[t] = "close"
    /\ critical' = LoggedAfterReconnect(critical)
    /\ redis_client' = [gen |-> redis_client.gen + 1, closed |-> FALSE]
    /\ pc' = pc
    /\ sync' = sync
    /\ current_totals' = TotalsAfterReconnect(current_totals)
    /\ UNCHANGED <<now, remote, new_increments, lock, boot,
                   nCalls, faults, applied, baseline, okMark>>
    /\ outcome' = NoOutcome
    /\ snap' = NoSnap
    /\ fl' = Settled(fl)
    /\ UNCHANGED callers
\* close() returned and a new client was created: the loop returns
CloseReturns(t) ==
    /\ pc[t] = "close"
    /\ critical' = LoggedAfterReconnect(critical)
    /\ redis_client' = [gen |-> redis_client.gen + 1, closed |-> FALSE]
    /\ pc' = [pc EXCEPT ![t] = AfterReconnection]
    /\ sync' = [sync EXCEPT ![t] = NoSync]
    /\ current_totals' = TotalsAfterReconnect(current_totals)
    /\ UNCHANGED <<now, remote, new_increments, lock, boot,
                   nCalls, faults, applied, baseline, okMark>>
    /\ outcome' = NoOutcome
    /\ snap' = NoSnap
    /\ fl' = Settled(fl)
    /\ UNCHANGED callers

\* the attempt raised: count it and sleep for delay
CloseFails(t) ==
    /\ pc[t] = "close"
    /\ sync' = [sync EXCEPT ![t].retry_count = @ + 1]
    /\ pc' = [pc EXCEPT ![t] = "backoff"]
    /\ UNCHANGED <<now, redis_client, remote, current_totals, new_increments,
                   lock, boot, nCalls, faults, applied,
                   baseline, okMark>>
    /\ outcome' = NoOutcome
    /\ snap' = NoSnap
    /\ fl' = Settled(fl)
    /\ UNCHANGED <<critical, callers>>

\* a slip: the delay grows by the base delay instead of doubling
NextDelayLinear(delay) == delay + 1
\* delay *= 2
NextDelay(delay) == delay * 2

\* a different design: once the attempts are used up the periodic task ends
BackoffDoneGivesUp(t) ==
    /\ pc[t] = "backoff"
    /\ IF sync[t].retry_count < max_retries
       THEN /\ sync' = [sync EXCEPT ![t].delay = NextDelay(@)]
            /\ pc' = [pc EXCEPT ![t] = "close"]
            /\ critical' = critical
       ELSE /\ sync' = [sync EXCEPT ![t] = NoSync]
            /\ pc' = [pc EXCEPT ![t] = "ended"]
            /\ critical' = LoggedAfterExhaustion(critical)
    /\ UNCHANGED <<now, redis_client, remote, current_totals, new_increments,
                   lock, boot, nCalls, faults, applied,
                   baseline, okMark>>
    /\ outcome' = NoOutcome
    /\ snap' = NoSnap
    /\ fl' = Settled(fl)
    /\ UNCHANGED callers
\* asyncio.sleep(delay) is over: the delay doubles and the loop test runs;
\* when it fails the critical event is logged and the method returns
BackoffDone(t) ==
    /\ pc[t] = "backoff"
    /\ IF sync[t].retry_count < max_retries
       THEN /\ sync' = [sync EXCEPT ![t].delay = NextDelay(@)]
            /\ pc' = [pc EXCEPT ![t] = "close"]
            /\ critical' = critical
       ELSE /\ sync' = [sync EXCEPT ![t] = NoSync]
            /\ pc' = [pc EXCEPT ![t] = AfterReconnection]
            /\ critical' = LoggedAfterExhaustion(critical)
    /\ UNCHANGED <<now, redis_client, remote, current_totals, new_increments,
                   lock, boot, nCalls, faults, applied,
                   baseline, okMark>>
    /\ outcome' = NoOutcome
    /\ snap' = NoSnap
    /\ fl' = Settled(fl)
    /\ UNCHANGED callers

\* ---------------------------------------------------------- specification

Next ==
    \/ \E tokens \in TokenVals : AccessCall(tokens)
    \/ AccessResume
    \/ StatsCall
    \/ StatsResume
    \/ Tick
    \/ BootStart
    \/ ScanReturns
    \/ HgetallReturns
    \/ BootFails
    \/ \E t \in SyncIds : TimerFires(t)
    \/ \E t \in SyncIds : FlushResume(t)
    \/ \E t \in SyncIds : HincrbyReturns(t)
    \/ \E t \in SyncIds : HincrbyFails(t)
    \/ \E t \in SyncIds : CloseReturns(t)
    \/ \E t \in SyncIds : CloseFails(t)
    \/ \E t \in SyncIds : BackoffDone(t)

Spec == Init /\ [][Next]_vars

\* the steps of the task created by __init__, of the periodic task and of
\* the calls that wait for the lock; each task is sequential, so at most one
\* step of a group can be taken at a time
InitTaskStep == BootStart \/ ScanReturns \/ HgetallReturns \/ BootFails
SyncTaskStep ==
    \E t \in SyncIds :
        \/ TimerFires(t)
        \/ FlushResume(t)
        \/ HincrbyReturns(t)
        \/ HincrbyFails(t)
        \/ CloseReturns(t)
        \/ CloseFails(t)
        \/ BackoffDone(t)
WaiterStep == AccessResume

\* the scheduling of asyncio and of the remote store: a task that can run
\* does run, a timer that is due fires and a remote call that is outstanding
\* comes back, with a result or with an exception
Fairness ==
    /\ WF_vars(InitTaskStep)
    /\ WF_vars(SyncTaskStep)
    /\ WF_vars(WaiterStep)

\* the tasks and the calls of access(), on one day and with no stats()
NextSync ==
    \/ \E tokens \in TokenVals : AccessCall(tokens)
    \/ InitTaskStep
    \/ SyncTaskStep
    \/ WaiterStep

SpecFair == Init /\ [][NextSync]_vars /\ Fairness

\* ---------------------------------------------- further calls of the API

\* _sync_from_redis is called again once _initialize has ended; history:
\* what the totals were, and whether they were loaded by a successful call
\* with no access() applied since
Reload ==
    /\ pc[INIT] = "done"
    /\ loads.n < MaxReloads
    /\ SyncFromRedisEnter
    /\ loads' = [n |-> loads.n + 1,
                 first |-> [valid |-> boot.outcome = "ok" /\ applied = NoEvents,
                            totals |-> StatsCopy(current_totals)]]
    /\ UNCHANGED <<critical, probe, req, job>>

\* a different design: close() flushes what is pending before it closes
AfterCloseFlushed(incs) == EmptyTables
\* new_increments after close(): the method only closes the client
AfterClose(incs) == incs

\* close(): the client's close() runs in the executor and returns or raises
Shutdown ==
    /\ ~redis_client.closed
    /\ \E how \in {"returned", "raised"} :
          /\ redis_client' = [redis_client EXCEPT !.closed = (how = "returned")]
          /\ outcome' = [op |-> "close", how |-> how]
    /\ new_increments' = AfterClose(new_increments)
    /\ UNCHANGED <<now, remote, current_totals, lock, pc, boot, sync, nCalls,
                   faults, applied, baseline, okMark, critical, callers>>
    /\ snap' = NoSnap
    /\ fl' = Settled(fl)

\* the caller of stats() keeps the first value it gets
InitCalls ==
    /\ InitAnalytics
    /\ held = [keeper |-> TRUE, kept |-> FALSE]
    /\ loads = NoLoads
    /\ probe = NoProbe
    /\ req = NoReq
    /\ job = NoJob

\* the calls of the API while the periodic task sleeps
NextCalls ==
    \/ \E tokens \in TokenVals : AccessCall(tokens)
    \/ AccessResume
    \/ StatsCall
    \/ StatsResume
    \/ Tick
    \/ BootStart
    \/ ScanReturns
    \/ HgetallReturns
    \/ BootFails
    \/ Reload
    \/ Shutdown

SpecCalls == InitCalls /\ [][NextCalls]_vars

\* ------------------------------------------ the bootstrap over other stores

\* a store with several keys under one metric: the SCAN of "access" needs
\* more than one page
SeveralKeysStore ==
    (RedisKey("access", TOTAL) :> (LABEL :> 3))
      @@ (RedisKey("access", DayKey(Calendar[1])) :> ((LABEL :> 2) @@ ("legacy" :> 1)))
      @@ (RedisKey("tokens", TOTAL) :> (LABEL :> 4))
BootStores == {EmptyStore, PriorStore, SeveralKeysStore}

InitBoot ==
    /\ InitWith(BootStores)
    /\ held = NoHeld
    /\ loads = NoLoads
    /\ probe = NoProbe
    /\ req = NoReq
    /\ job = NoJob

\* the bootstrap, with access() called before, during and after it
NextBoot ==
    \/ \E tokens \in TokenVals : AccessCall(tokens)
    \/ AccessResume
    \/ BootStart
    \/ ScanReturns
    \/ HgetallReturns
    \/ BootFails

SpecBoot == InitBoot /\ [][NextBoot]_vars

\* ------------------------------------------------- _get_period_keys alone

\* timestamps around two turns of the year, a leap day and a Sunday
Dates ==
    << [year |-> 2023, month |-> 12, day |-> 31], [year |-> 2024, month |-> 1, day |-> 1],
       [year |-> 2024, month |-> 2, day |-> 29], [year |-> 2024, month |-> 3, day |-> 1],
       [year |-> 2024, month |-> 12, day |-> 28], [year |-> 2024, month |-> 12, day |-> 29],
       [year |-> 2024, month |-> 12, day |-> 31], [year |-> 2025, month |-> 1, day |-> 1],
       [year |-> 2025, month |-> 1, day |-> 4], [year |-> 2025, month |-> 1, day |-> 5],
       [year |-> 2025, month |-> 1, day |-> 6], [year |-> 2025, month |-> 12, day |-> 31] >>

InitKeys ==
    /\ InitAnalytics
    /\ held = NoHeld
    /\ loads = NoLoads
    /\ req = NoReq
    /\ job = NoJob
    /\ probe \in {[done |-> FALSE, a |-> i, b |-> j] : i, j \in DOMAIN Dates}

\* _get_period_keys() is called at each of the two timestamps
Derive ==
    /\ ~probe.done
    /\ probe' = [done |-> TRUE, a |-> probe.a, b |-> probe.b,
                 ka |-> PeriodKeys(Dates[probe.a]), kb |-> PeriodKeys(Dates[probe.b])]
    /\ UNCHANGED <<now, redis_client, remote, current_totals, new_increments, lock,
                   pc, boot, sync, outcome, snap, nCalls, faults, applied, baseline,
                   fl, okMark, critical, held, loads, req, job>>

NextKeys == Derive

SpecKeys == InitKeys /\ [][NextKeys]_vars

\* ------------------------------------------- router.py: convert_document

\* the parameters convert_file() accepts besides self
ConvertFileParams == {"source", "openai_config", "cleanup"}
\* the keyword arguments convert_document passes to it, in both branches
CallKeywords == {"source", "openai_config", "http_config", "cleanup"}
\* how the awaited call ends: a keyword the method does not accept raises
\* TypeError before the method runs; _convert_sync raises RuntimeError when
\* MarkItDown cannot convert the source
ConvertFileResult(keywords, convertible) ==
    IF ~(keywords \subseteq ConvertFileParams) THEN "TypeError"
    ELSE IF convertible THEN "ok" ELSE "RuntimeError"

\* a request: what it carries, which of its JSON parameters parse, whether
\* MarkItDown can convert the source and the token count of the result
Requests ==
    [pc : {"received"}, source : {"file", "url", "none"},
     openai : BOOLEAN, http : BOOLEAN, settings : BOOLEAN,
     convertible : BOOLEAN, token_count : TokenVals,
     response : {"none"}, scheduled : {<<>>}]

InitRouter ==
    /\ InitAnalytics
    /\ held = NoHeld
    /\ loads = NoLoads
    /\ probe = NoProbe
    /\ req \in Requests
    /\ job = NoJob

\* lines 114-117: every exception raised in the try block, the HTTPException
\* of line 106 included, becomes a response with status 500
Fails(r) == [r EXCEPT !.pc = "responded", !.response = "500"]

\* lines 53-70: the three JSON parameters are parsed
ParseConfigs ==
    /\ req.pc = "received"
    /\ req' = IF req.openai /\ req.http /\ req.settings
              THEN [req EXCEPT !.pc = "parsed"]
              ELSE Fails(req)
    /\ UNCHANGED <<now, redis_client, remote, current_totals, new_increments, lock,
                   pc, boot, sync, outcome, snap, nCalls, faults, applied, baseline,
                   fl, okMark, critical, held, loads, probe, job>>

\* lines 72-117: the source is chosen and convert_file awaited; when it
\* returns, analytics.access is added to the background tasks and the
\* response is built
Convert ==
    /\ req.pc = "parsed"
    /\ req' = IF req.source = "none" THEN Fails(req)
              ELSE IF ConvertFileResult(CallKeywords, req.convertible) # "ok"
              THEN Fails(req)
              ELSE [req EXCEPT !.pc = "responded", !.response = "ConvertResponse",
                               !.scheduled = Append(@, req.token_count)]
    /\ UNCHANGED <<now, redis_client, remote, current_totals, new_increments, lock,
                   pc, boot, sync, outcome, snap, nCalls, faults, applied, baseline,
                   fl, okMark, critical, held, loads, probe, job>>

NextRouter ==
    \/ ParseConfigs
    \/ Convert

SpecRouter == InitRouter /\ [][NextRouter]_vars


\* ------------------------------------------- service.py: _convert_sync

\* the index of the last occurrence of the one-character string ch in s, 0
\* when there is none
RECURSIVE LastIndexOf(_, _, _)
LastIndexOf(s, ch, i) ==
    IF i = 0 THEN 0
    ELSE IF SubSeq(s, i, i) = ch THEN i
    ELSE LastIndexOf(s, ch, i - 1)
\* Path(p).name: what follows the last "/"
PathName(p) == SubSeq(p, LastIndexOf(p, "/", Len(p)) + 1, Len(p))
\* Path(p).stem: the name without its last suffix; a name with no dot, or
\* with its only dot in front, has no suffix
PathStem(p) ==
    LET name == PathName(p)
        dot == LastIndexOf(name, ".", Len(name))
    IN  IF dot <= 1 THEN name ELSE SubSeq(name, 1, dot - 1)

\* what magic.from_file can report for a file, "" for nothing
MimeTypes == {"text/html", "application/pdf", "application/octet-stream", ""}
\* mimetypes.guess_extension(mime_type) or ".tmp"
GuessedExt(mime) ==
    IF mime = "text/html" THEN ".html"
    ELSE IF mime = "application/pdf" THEN ".pdf"
    ELSE IF mime = "application/octet-stream" THEN ".bin"
    ELSE ".tmp"
\* lines 138-143: the name of the temporary copy
NewFilename(src, mime) ==
    IF mime = "" THEN PathName(src) ELSE PathStem(src) \o GuessedExt(mime)

\* the files on disk before the call, a path with no file and a URL
LocalFiles == {"/data/report.pdf", "/data/page.htm", "/data/notes", "/data/a.tar.gz"}
MissingFile == "/data/missing.pdf"
Url == "http://example.org/doc"
Sources == LocalFiles \cup {MissingFile, Url}
\* source.startswith("http")
IsUrl(source) == Len(source) >= 4 /\ SubSeq(source, 1, 4) = "http"

\* the directory tempfile.TemporaryDirectory() creates
TmpDir == "/tmp/tmpdir"
IsUnder(path, dir) ==
    Len(path) > Len(dir) /\ SubSeq(path, 1, Len(dir) + 1) = dir \o "/"

NotInvoked == [made |-> FALSE, path |-> "", existed |-> FALSE]

\* a call _convert_sync(source, openai_config, cleanup): mime is what magic
\* reports for the file, convertible whether MarkItDown can convert a
\* source it can read
Jobs ==
    [pc : {"called"}, arg : Sources, source : {""}, cleanup : BOOLEAN,
     api_key : BOOLEAN, mime : MimeTypes, convertible : BOOLEAN,
     files : {LocalFiles}, dirs : {{}}, tmp_path : {""}, cleaned : {FALSE},
     filename : {""}, converter : {"none"}, invoked : {NotInvoked},
     result : {"none"}]

InitConvert ==
    /\ InitAnalytics
    /\ held = NoHeld
    /\ loads = NoLoads
    /\ probe = NoProbe
    /\ req = NoReq
    /\ job \in {j \in Jobs : j.source = "" /\ (j.arg \notin LocalFiles => j.mime = "")}

\* what no step of _convert_sync touches
AnalyticsUnchanged ==
    UNCHANGED <<now, redis_client, remote, current_totals, new_increments, lock,
                pc, boot, sync, outcome, snap, nCalls, faults, applied, baseline,
                fl, okMark, critical, held, loads, probe, req>>

\* lines 125-135: a URL goes to the converter as it is; a path with no file
\* raises FileNotFoundError; for a file the temporary directory is created
ConvertSyncStart ==
    /\ job.pc = "called"
    /\ job' = IF IsUrl(job.arg)
              THEN [job EXCEPT !.pc = "choose", !.source = job.arg,
                               !.filename = "scuid.html"]
              ELSE IF job.arg \notin job.files
              THEN [job EXCEPT !.pc = "raised", !.result = "FileNotFoundError"]
              ELSE [job EXCEPT !.pc = "in_tmpdir", !.source = job.arg,
                               !.dirs = @ \cup {TmpDir}]
    /\ AnalyticsUnchanged

\* lines 136-152: the file is copied into the directory under its new name
CopyToTemp ==
    /\ job.pc = "in_tmpdir"
    /\ LET tmp_path == TmpDir \o "/" \o NewFilename(job.arg, job.mime)
       IN  job' = [job EXCEPT !.pc = "copied", !.tmp_path = tmp_path,
                              !.files = @ \cup {tmp_path}]
    /\ AnalyticsUnchanged

\* lines 155-156: the copy is cleaned when asked for and when it is HTML
MaybeCleanupHtml ==
    /\ job.pc = "copied"
    /\ job' = [job EXCEPT !.pc = "leaving",
                          !.cleaned = job.cleanup
                                        /\ GuessedExt(job.mime) \in {".html", ".htm"}]
    /\ AnalyticsUnchanged

\* the with block of line 135 ends after line 156: the directory and what
\* is in it are removed; then lines 158-159
LeaveTempDir ==
    /\ job.pc = "leaving"
    /\ job' = [job EXCEPT !.pc = "choose",
                          !.files = {f \in @ : ~IsUnder(f, TmpDir)},
                          !.dirs = @ \ {TmpDir},
                          !.filename = PathName(job.arg),
                          !.source = job.tmp_path]
    /\ AnalyticsUnchanged

\* lines 162-165
ChooseConverter ==
    /\ job.pc = "choose"
    /\ job' = [job EXCEPT !.pc = "convert",
                          !.converter = IF job.api_key THEN "llm" ELSE "basic"]
    /\ AnalyticsUnchanged

\* lines 167-180: md_converter.convert(source) reads the source; a path
\* with no file makes it raise, and every exception becomes RuntimeError
MarkItDownConvert ==
    /\ job.pc = "convert"
    /\ LET there == IsUrl(job.source) \/ job.source \in job.files
       IN  job' = [job EXCEPT
                      !.invoked = [made |-> TRUE, path |-> job.source, existed |-> there],
                      !.pc = IF there /\ job.convertible THEN "returned" ELSE "raised",
                      !.result = IF there /\ job.convertible THEN "markdown"
                                 ELSE "RuntimeError"]
    /\ AnalyticsUnchanged

NextConvert ==
    \/ ConvertSyncStart
    \/ CopyToTemp
    \/ MaybeCleanupHtml
    \/ LeaveTempDir
    \/ ChooseConverter
    \/ MarkItDownConvert

SpecConvert == InitConvert /\ [][NextConvert]_vars


\* ------------------------------------------------------------ properties

\* every period that can name a cell in a run
\* the period keys of each date of the calendar
KeysOfDate == [i \in DOMAIN Calendar |-> Range(PeriodKeys(Calendar[i]))]
KnownPeriods ==
    UNION {KeysOfDate[i] : i \in DOMAIN Calendar}
      \cup UNION {{PeriodOfKey(m, key) : key \in MatchingKeys(store, m)} :
                     m \in Metrics, store \in InitStores}

\* what the events evs add to cell (m, k, l): each event counts once in
\* "access" and with its token count in "tokens", in its five periods
RECURSIVE IncOver(_, _, _, _, _)
IncOver(S, evs, m, k, l) ==
    IF S = {} THEN 0
    ELSE LET e == CHOOSE x \in S : TRUE
             hit == l = LABEL /\ k \in KeysOfDate[e[1]]
             amount == IF m = "access" THEN 1 ELSE e[2]
         IN  (IF hit THEN evs[e] * amount ELSE 0) + IncOver(S \ {e}, evs, m, k, l)
ExpectedInc(evs, m, k, l) ==
    IF l = LABEL THEN IncOver({e \in EventKinds : evs[e] # 0}, evs, m, k, l) ELSE 0
EventsSince(mark) == [e \in EventKinds |-> applied[e] - mark[e]]

\* the total amount the calls in issued added to cell (m, k, l)
RECURSIVE Written(_, _, _, _)
Written(issued, m, k, l) ==
    IF issued = <<>> THEN 0
    ELSE (IF Head(issued).m = m /\ Head(issued).period = k /\ Head(issued).label = l
          THEN Head(issued).amount ELSE 0) + Written(Tail(issued), m, k, l)

FlushInFlight == \E t \in SyncIds : pc[t] = "hincrby"
Reconnecting == \E t \in SyncIds : pc[t] \in {"close", "backoff"}

\* C1: once a bootstrap has succeeded and while no flush is in flight, for
\* every metric, period and label the remote value plus the pending
\* increment equals the absolute total.
C1_RemotePlusPendingIsTotal ==
    (boot.outcome = "ok" /\ ~FlushInFlight) =>
        \A m \in Metrics, k \in KnownPeriods, l \in Labels :
            RemoteVal(remote, RedisKey(m, k), l) + Cell(new_increments[m], k, l)
              = Cell(current_totals[m], k, l)


\* C2: a stats() call that starts when no bootstrap and no access() is under
\* way returns, in the "total" bucket, the baseline plus the token sum
\* (tokens) and the number (access) of the access() calls that returned
\* before it started, and in the "access" bucket of each day the baseline
\* plus the number of those calls made on that day, whatever flush cycles
\* ran in between.
C2_SnapshotReflectsReturnedCalls ==
    (snap.taken /\ snap.expect.clean) =>
        /\ StatsVal(snap.val, "tokens", TOTAL, LABEL)
             = StatsVal(baseline, "tokens", TOTAL, LABEL) + SumTokens(snap.expect.applied)
        /\ StatsVal(snap.val, "access", TOTAL, LABEL)
             = StatsVal(baseline, "access", TOTAL, LABEL) + CountEvents(snap.expect.applied)
        /\ \A i \in DOMAIN Calendar :
              StatsVal(snap.val, "access", DayKey(Calendar[i]), LABEL)
                = StatsVal(baseline, "access", DayKey(Calendar[i]), LABEL)
                    + ExpectedInc(snap.expect.applied, "access", DayKey(Calendar[i]), LABEL)
\* two calls carrying tokens returned, a flush succeeded between them, then
\* stats() was called
C2_Witness ==
    /\ snap.taken /\ snap.expect.clean /\ pc[INIT] = "done"
    /\ CountEvents(snap.expect.applied) = 2 /\ SumTokens(snap.expect.applied) = 4
    /\ okMark.valid /\ CountEvents(okMark.applied) = 1

\* C3: in the state a flush cycle ends in with every HINCRBY call returned,
\* new_increments is empty and, for every cell, the amount the cycle wrote
\* is the cell's increment when the cycle started.
C3_FlushWritesTheDelta ==
    fl.outcome = "ok" =>
        /\ new_increments = EmptyTables
        /\ \A m \in Metrics, k \in KnownPeriods, l \in Labels :
               Written(fl.issued, m, k, l) = Cell(fl.start[m], k, l)
C3_Witness ==
    fl.outcome = "ok" /\ Written(fl.issued, "tokens", TOTAL, LABEL) = 4

\* C4: when a successful flush cycle follows a successful one, every remote
\* value is its value at the end of the first plus the increments of the
\* access() calls applied between the two ends.
C4_NoDoubleCounting ==
    (fl.outcome = "ok" /\ fl.prev.valid) =>
        \A m \in Metrics, k \in KnownPeriods, l \in Labels :
            RemoteVal(remote, RedisKey(m, k), l)
              = RemoteVal(fl.prev.remote, RedisKey(m, k), l)
                  + ExpectedInc(EventsSince(fl.prev.applied), m, k, l)
C4_Witness ==
    /\ fl.outcome = "ok" /\ fl.prev.valid /\ fl.issued # <<>>
    /\ CountEvents(fl.prev.applied) = 1 /\ CountEvents(applied) = 2

\* C5 as stated: after a flush cycle in which a HINCRBY call raised, the
\* increments the cycle was flushing are no longer in new_increments.
C5_DeltaDroppedOnFailure ==
    fl.outcome = "failed" =>
        \A m \in Metrics, k \in KnownPeriods, l \in Labels :
            Cell(fl.start[m], k, l) # 0 => Cell(new_increments[m], k, l) = 0
\* C5 as amended: a flush cycle in which a HINCRBY call raised leaves
\* new_increments as it was when the cycle started, also in the cells whose
\* HINCRBY had already returned, and a cycle sends everything applied since
\* the last successful one.
C5_DeltaKeptOnFailure ==
    /\ fl.outcome = "failed" => new_increments = fl.start
    /\ fl.outcome = "running" =>
           \A m \in Metrics, k \in KnownPeriods, l \in Labels :
               Cell(fl.start[m], k, l) = ExpectedInc(EventsSince(okMark.applied), m, k, l)
C5_Witness ==
    fl.outcome = "failed" /\ fl.issued # <<>> /\ FlushCalls(new_increments) # <<>>

\* C6: while a HINCRBY call of a flush is outstanding the lock is not held,
\* so a call of access() or stats() need not wait for the call to return.
C6_LockFreeDuringRemoteCall ==
    \A t \in SyncIds : pc[t] = "hincrby" => lock.holder = NOBODY

\* C7: no step decreases a cell of current_totals.
C7_TotalsNeverDecrease ==
    [][\A m \in Metrics, k \in KnownPeriods, l \in Labels :
          Cell(current_totals'[m], k, l) >= Cell(current_totals[m], k, l)]_vars

\* C8: outside the bootstrap every cell of current_totals is its baseline
\* plus, and every cell of new_increments is, what the applied events add
\* to their five periods under label "docsifer" (1 to "access", the token
\* count to "tokens") and nothing else; a snapshot shows the same.
C8_FiveBucketsAtOnce ==
    /\ pc[INIT] \in {"created", "done"} =>
         \A m \in Metrics, k \in KnownPeriods, l \in Labels :
            /\ Cell(current_totals[m], k, l)
                 = StatsVal(baseline, m, k, l) + ExpectedInc(applied, m, k, l)
            /\ Cell(new_increments[m], k, l)
                 = ExpectedInc(EventsSince(okMark.applied), m, k, l)
    /\ snap.taken =>
         \A m \in Metrics, k \in KnownPeriods, l \in Labels :
            StatsVal(snap.val, m, k, l)
              = StatsVal(baseline, m, k, l) + ExpectedInc(applied, m, k, l)
    /\ \A m \in Metrics :
          DOMAIN current_totals[m].val \subseteq KnownPeriods
            /\ DOMAIN new_increments[m].val \subseteq KnownPeriods
C8_Witness ==
    snap.taken /\ applied[<<1, 2>>] = 1 /\ applied[<<2, 0>>] = 1

\* C9: a call of access() never raises, and in the state it returns in the
\* tables hold its five-bucket update, whatever the periodic task is doing
\* with the client.
C9_AccessNeverFails ==
    /\ outcome.how # "raised"
    /\ outcome.op = "access" =>
         \A m \in Metrics, k \in KnownPeriods, l \in Labels :
            /\ Cell(current_totals[m], k, l)
                 = StatsVal(baseline, m, k, l) + ExpectedInc(applied, m, k, l)
            /\ Cell(new_increments[m], k, l)
                 = ExpectedInc(EventsSince(okMark.applied), m, k, l)
\* access() returns while the last reconnection attempt has failed
C9_Witness ==
    /\ outcome = [op |-> "access", how |-> "returned"]
    /\ \E t \in SyncIds : pc[t] = "backoff" /\ sync[t].retry_count = max_retries

InCycle(t) == pc[t] \in {"lock_wait", "hincrby", "close", "backoff"}
\* C10: there is one periodic task; at most one flush cycle, reconnection
\* included, is in progress, and a task that sleeps has no cycle under way.
C10_OneCycleAtATime ==
    /\ Cardinality({t \in SyncIds : pc[t] # "unborn"}) <= 1
    /\ Cardinality({t \in SyncIds : InCycle(t)}) <= 1
    /\ \A t \in SyncIds : pc[t] \in {"unborn", "sleep"} =>
          /\ sync[t] = NoSync
          /\ lock.holder # t
          /\ \A i \in DOMAIN lock.waiters : lock.waiters[i] # [op |-> "flush", task |-> t]
C10_Witness ==
    \E t \in SyncIds : pc[t] = "backoff" /\ sync[t].retry_count = 2

RECURSIVE Pow2(_)
Pow2(n) == IF n = 0 THEN 1 ELSE 2 * Pow2(n - 1)
\* C11: one reconnection makes at most max_retries attempts, and the delay
\* slept after the k-th failed attempt is 2^(k-1) seconds.
C11_BoundedDoublingBackoff ==
    \A t \in SyncIds :
        /\ pc[t] = "close" =>
              /\ sync[t].retry_count < max_retries
              /\ sync[t].delay = Pow2(sync[t].retry_count)
        /\ pc[t] = "backoff" =>
              /\ sync[t].retry_count \in 1..max_retries
              /\ sync[t].delay = Pow2(sync[t].retry_count - 1)
\* the sleep after the last attempt
C11_Witness ==
    \E t \in SyncIds :
        pc[t] = "backoff" /\ sync[t].retry_count = max_retries /\ sync[t].delay = 16

\* C12: every failed flush cycle ends in exactly one of a successful
\* reconnection, which logs no critical event, and an exhausted one, which
\* logs one; after it the periodic task is back in its loop.
C12_OneCriticalPerExhaustedCycle ==
    /\ critical + redis_client.gen + (IF Reconnecting THEN 1 ELSE 0) = faults
    /\ (critical > 0 /\ ~Reconnecting) =>
          \E t \in SyncIds : pc[t] \in {"sleep", "lock_wait", "hincrby"}
\* after an exhausted reconnection a later flush cycle wrote its increments
C12_Witness ==
    critical = 1 /\ fl.outcome = "ok" /\ fl.issued # <<>>

\* C13: once a bootstrap attempt has failed, current_totals holds nothing
\* loaded from the remote store, _initialize has ended and the periodic task
\* exists.
C13_FailedBootstrapLeavesEmptyBaseline ==
    boot.outcome = "failed" =>
        /\ baseline = StatsCopy(EmptyTables)
        /\ pc[INIT] = "done"
        /\ \E t \in SyncIds : pc[t] # "unborn"

\* C19: the step in which a HINCRBY call raises ends the calls of that
\* cycle and starts one reconnection; until the task sleeps again nothing
\* is written to the remote store and no second reconnection starts.
C19_FailedFlushProtocol ==
    [][\A t \in SyncIds :
          /\ (pc[t] = "hincrby" /\ faults' # faults) =>
                /\ pc'[t] = "close" /\ sync'[t].retry_count = 0
                /\ lock'.holder # t
                /\ remote' = remote
          /\ pc[t] \in {"close", "backoff"} =>
                /\ remote' = remote
                /\ lock'.holder # t
                /\ pc'[t] \in {"close", "backoff", "sleep"}
                /\ (pc[t] = "backoff" /\ pc'[t] = "close") => sync'[t].retry_count >= 1
      ]_vars
\* the task sleeps again after a failed cycle, its increments still pending
C19_Witness ==
    /\ faults = 1 /\ ~okMark.valid
    /\ \E t \in SyncIds : pc[t] = "sleep"
    /\ FlushCalls(new_increments) # <<>>

\* C20: a flush cycle that succeeds writes exactly what the access() calls
\* applied since the last successful cycle added, and new_increments always
\* holds exactly what the calls applied since then added: every increment is
\* in one of the two and in one only.
C20_NoIncrementLostAroundFlush ==
    /\ fl.outcome = "ok" =>
          \A m \in Metrics, k \in KnownPeriods, l \in Labels :
             /\ Written(fl.issued, m, k, l)
                  = ExpectedInc([e \in EventKinds |-> okMark.applied[e] - fl.prev.applied[e]],
                                m, k, l)
             /\ Cell(new_increments[m], k, l) = 0
    /\ pc[INIT] \in {"created", "done"} =>
          \A m \in Metrics, k \in KnownPeriods, l \in Labels :
             Cell(new_increments[m], k, l)
               = ExpectedInc(EventsSince(okMark.applied), m, k, l)
\* an access() call waits for the lock while the cycle writes and ends
C20_Witness ==
    /\ fl.outcome = "ok" /\ fl.issued # <<>>
    /\ \E i \in DOMAIN lock.waiters : lock.waiters[i].op = "access"

\* C14: when _sync_from_redis succeeds again after a successful call, with
\* no access() applied in between and the remote store as it was, the
\* totals it leaves are the totals the first call left.
C14_ReloadLeavesTotalsUnchanged ==
    (loads.n > 0 /\ loads.first.valid /\ boot.outcome = "ok") =>
        baseline = loads.first.totals
\* a second successful load of a store that holds counts, after an access()
\* that the first load had overwritten
C14_Witness ==
    /\ loads.n > 0 /\ loads.first.valid /\ boot.outcome = "ok"
    /\ StatsVal(baseline, "access", TOTAL, LABEL) = 2
    /\ nCalls > 0

\* C15: the value stats() returns is current_totals as it is then, the
\* holder of a returned value reads the same value in it whatever calls and
\* bootstraps follow, and the step in which stats() returns changes neither
\* current_totals nor new_increments.
C15_SnapshotIsIndependentCopy ==
    /\ [](snap.taken => snap.val = StatsCopy(current_totals))
    /\ [](held.kept => View(held) = held.val)
    /\ [][outcome'.op = "stats" =>
            current_totals' = current_totals /\ new_increments' = new_increments]_vars
\* the totals have moved on from a held value: by an access() and by a load
C15_Witness ==
    /\ held.kept /\ loads.n > 0 /\ boot.outcome = "ok"
    /\ StatsVal(held.val, "access", TOTAL, LABEL) = 3
    /\ Cell(current_totals["access"], TOTAL, LABEL) = 2

\* C16: the step in which close() ends changes neither new_increments nor
\* current_totals nor the remote store.
C16_CloseDoesNotFlush ==
    [][outcome'.op = "close" =>
          /\ new_increments' = new_increments
          /\ current_totals' = current_totals
          /\ remote' = remote]_vars
\* close() has returned and increments are still pending
C16_Witness ==
    /\ outcome = [op |-> "close", how |-> "returned"]
    /\ Cell(new_increments["tokens"], TOTAL, LABEL) = 4
    /\ RemoteVal(remote, RedisKey("tokens", TOTAL), LABEL) = 0

\* two timestamps are in the same calendar week (Sunday to Saturday)
SameWeek(a, b) == Ordinal(a) - WeekDaySun(a) = Ordinal(b) - WeekDaySun(b)
\* C17: two timestamps of one calendar day, week, month or year get the same
\* day, week, month or year key, also when the week straddles the turn of
\* the year, and two timestamps of different years get different week keys.
C17_SamePeriodSameKey ==
    probe.done =>
        LET a == Dates[probe.a]
            b == Dates[probe.b]
        IN  /\ a = b => probe.ka[1] = probe.kb[1]
            /\ SameWeek(a, b) => probe.ka[2] = probe.kb[2]
            /\ (a.year = b.year /\ a.month = b.month) => probe.ka[3] = probe.kb[3]
            /\ a.year = b.year => probe.ka[4] = probe.kb[4]
            /\ a.year # b.year => probe.ka[2] # probe.kb[2]
\* C17 as amended: the week key is shared by the days of one calendar week
\* (Sunday to Saturday) that are in the same year; the rest as stated.
C17_SamePeriodSameKeyWithinYear ==
    probe.done =>
        LET a == Dates[probe.a]
            b == Dates[probe.b]
        IN  /\ a = b => probe.ka[1] = probe.kb[1]
            /\ (SameWeek(a, b) /\ a.year = b.year) => probe.ka[2] = probe.kb[2]
            /\ (a.year = b.year /\ a.month = b.month) => probe.ka[3] = probe.kb[3]
            /\ a.year = b.year => probe.ka[4] = probe.kb[4]
            /\ a.year # b.year => probe.ka[2] # probe.kb[2]
\* two days of the week that straddles the turn of the year 2024/2025
C17_Witness ==
    /\ probe.done
    /\ SameWeek(Dates[probe.a], Dates[probe.b])
    /\ Dates[probe.a].year = 2024 /\ Dates[probe.b].year = 2025
    /\ probe.ka[2] = "2024-W52" /\ probe.kb[2] = "2025-W00"

\* C18: a request that carries a file or a URL with a convertible source
\* (and JSON parameters that parse) ends with a ConvertResponse and exactly
\* one analytics.access(token_count) among its background tasks; a request
\* that ends with an error response has none.
C18_OneRecordPerConversion ==
    req.pc = "responded" =>
        /\ (req.source # "none" /\ req.openai /\ req.http /\ req.settings
              /\ req.convertible) =>
               req.response = "ConvertResponse" /\ req.scheduled = <<req.token_count>>
        /\ req.response # "ConvertResponse" => req.scheduled = <<>>

\* C21: neither the bootstrap nor the reconnection holds the lock while one
\* of its remote calls (SCAN, HGETALL, close) is outstanding
C21_NoLockDuringBootOrReconnectCalls ==
    /\ pc[INIT] \in {"scan", "hgetall"} => lock.holder # INIT
    /\ \A t \in SyncIds : pc[t] \in {"close", "backoff"} => lock.holder # t

\* C28: once the bootstrap has succeeded, no cell of the remote store is
\* ever above the same cell of current_totals
C28_RemoteNeverAboveTotals ==
    boot.outcome = "ok" =>
        \A m \in Metrics : \A k \in KnownPeriods : \A l \in Labels :
            RemoteVal(remote, RedisKey(m, k), l) <= Cell(current_totals[m], k, l)

\* C30: no sync task exists before the bootstrap attempt has finished, at
\* most one exists afterwards, and no flush is in flight during the bootstrap
C30_FlushOnlyAfterBootstrap ==
    /\ pc[INIT] # "done" => \A t \in SyncIds : pc[t] = "unborn"
    /\ Cardinality({t \in SyncIds : pc[t] # "unborn"}) <= 1
    /\ pc[INIT] \in {"scan", "hgetall"} => ~FlushInFlight
C30_Witness ==
    /\ pc[INIT] = "done"
    /\ boot.outcome = "failed"
    /\ \E t \in SyncIds : pc[t] = "hincrby"

\* C22: when a bootstrap has ended without an exception, the totals it left
\* hold, for every key of the store that matches a metric's pattern and
\* every field of its hash, the remote value under the key's period, they
\* hold no other non-zero cell, and nothing is pending until the next access
C22_BootstrapLoadsTheRemoteBaseline ==
    boot.outcome = "ok" =>
        /\ \A m \in Metrics : \A key \in MatchingKeys(remote, m) : \A l \in Labels :
               StatsVal(baseline, m, PeriodOfKey(m, key), l) = RemoteVal(remote, key, l)
        /\ \A m \in Metrics : \A k \in DOMAIN baseline[m] : \A l \in DOMAIN baseline[m][k] :
               baseline[m][k][l] # 0 =>
                   /\ RedisKey(m, k) \in MatchingKeys(remote, m)
                   /\ l \in DOMAIN remote[RedisKey(m, k)]
        /\ applied = NoEvents => new_increments = EmptyTables
C22_Witness ==
    /\ boot.outcome = "ok"
    /\ remote = SeveralKeysStore
    /\ StatsVal(baseline, "access", TOTAL, LABEL) = 3
    /\ StatsVal(baseline, "access", DayKey(Calendar[1]), "legacy") = 1
    /\ StatsVal(baseline, "tokens", TOTAL, LABEL) = 4
    /\ nCalls > 0
    /\ applied = NoEvents

\* C23: the step in which a reconnection attempt succeeds ends the
\* reconnection: the task is back at its sleep with no attempt and no
\* backoff left, and no critical event is logged
C23_SuccessEndsReconnection ==
    [][\A t \in SyncIds :
          (pc[t] = "close" /\ redis_client'.gen # redis_client.gen) =>
              /\ pc'[t] = "sleep"
              /\ sync'[t] = NoSync
              /\ critical' = critical
      ]_vars
C23_Witness ==
    /\ redis_client.gen = 1 /\ critical = 0 /\ faults = 1
    /\ \E t \in SyncIds : pc[t] = "sleep" /\ sync[t] = NoSync

\* C24: when a reconnection ends the task is at the sleep of a whole sync
\* interval, which only the timer ends, and with a flush; a reconnection
\* starts only in the step in which a HINCRBY call of a flush raises; and an
\* access() applied while the task reconnects or sleeps adds its increments
\* to new_increments
C24_IdleUntilNextScheduledFlush ==
    [][\A t \in SyncIds :
          /\ (pc[t] \in {"close", "backoff"} /\ sync'[t] = NoSync) => pc'[t] = "sleep"
          /\ (pc[t] \notin {"close", "backoff"} /\ pc'[t] \in {"close", "backoff"}) =>
                 pc[t] = "hincrby" /\ fl'.outcome = "failed"
          /\ (pc[t] = "sleep" /\ pc'[t] # "sleep") => pc'[t] \in {"lock_wait", "hincrby"}
          /\ (pc[t] \in {"close", "backoff", "sleep"} /\ applied' # applied
                /\ pc[INIT] = "done") =>
                 /\ pc'[t] = pc[t]
                 /\ remote' = remote
                 /\ \A m \in Metrics, k \in KnownPeriods, l \in Labels :
                        Cell(new_increments'[m], k, l)
                          = Cell(new_increments[m], k, l)
                              + ExpectedInc([e \in EventKinds |-> applied'[e] - applied[e]],
                                            m, k, l)
      ]_vars
\* an access() has just returned after a reconnection that followed a failed
\* flush, and both the failed increments and its own are pending
C24_Witness ==
    /\ outcome.op = "access"
    /\ redis_client.gen + critical = 1
    /\ \E t \in SyncIds : pc[t] = "sleep"
    /\ Cell(new_increments["access"], TOTAL, LABEL) = 2

\* C25: a step of the reconnection changes neither table, sends no SCAN and
\* no HGETALL and changes nothing in the remote store; once the bootstrap
\* of startup has ended no other one is started
C25_ReconnectionLeavesCounters ==
    [][/\ \A t \in SyncIds :
             (pc[t] \in {"close", "backoff"}
                /\ (pc'[t] # pc[t] \/ sync'[t] # sync[t] \/ redis_client' # redis_client)) =>
                 /\ current_totals' = current_totals
                 /\ new_increments' = new_increments
                 /\ remote' = remote
                 /\ boot' = boot
                 /\ pc'[INIT] = pc[INIT]
       /\ pc[INIT] = "done" => pc'[INIT] = "done"
      ]_vars
\* a new client is in use, the totals and what was pending are as before
C25_Witness ==
    /\ redis_client.gen = 1
    /\ ~okMark.valid
    /\ Cell(current_totals["access"], TOTAL, LABEL) = 3
    /\ Cell(current_totals["access"], TOTAL, "legacy") = 1
    /\ Cell(new_increments["access"], TOTAL, LABEL) = 1

\* C26: every HINCRBY call a flush cycle has sent is for a cell whose
\* increment was not zero when the cycle started, carries that increment as
\* its amount and is the only call for its cell; a cycle that ends with
\* every call returned has sent a call for every such cell
C26_OneCallPerNonZeroCell ==
    /\ fl.outcome # "none" =>
         \A i \in DOMAIN fl.issued :
            LET c == fl.issued[i]
            IN  /\ c.amount # 0
                /\ c.amount = Cell(fl.start[c.m], c.period, c.label)
                /\ \A j \in DOMAIN fl.issued :
                      (fl.issued[j].m = c.m /\ fl.issued[j].period = c.period
                         /\ fl.issued[j].label = c.label) => i = j
    /\ fl.outcome = "ok" =>
         \A m \in Metrics, k \in KnownPeriods, l \in Labels :
            Cell(fl.start[m], k, l) # 0 =>
                \E i \in DOMAIN fl.issued :
                    /\ fl.issued[i].m = m /\ fl.issued[i].period = k
                    /\ fl.issued[i].label = l
\* a flush after one access(0): five calls for "access", none for the five
\* cells of "tokens", which exist and hold 0
C26_Witness ==
    /\ fl.outcome = "ok"
    /\ Len(fl.issued) = 5
    /\ HasKey(fl.start["tokens"], TOTAL)
    /\ LABEL \in DOMAIN fl.start["tokens"].val[TOTAL]
    /\ Cell(fl.start["tokens"], TOTAL, LABEL) = 0

\* C27: no step of the periodic task, in a flush cycle that succeeds or
\* fails or in a reconnection, changes current_totals
C27_FlushLeavesTotals ==
    [][(\E t \in SyncIds :
           pc[t] # "unborn" /\ (pc'[t] # pc[t] \/ sync'[t] # sync[t])) =>
          current_totals' = current_totals
      ]_vars
\* a flush cycle has failed after some calls, the totals hold both accesses
C27_Witness ==
    /\ fl.outcome = "failed" /\ fl.issued # <<>>
    /\ Cell(current_totals["tokens"], TOTAL, LABEL) = 4
    /\ Cell(current_totals["access"], TOTAL, LABEL) = 4

\* nothing is pending and the remote store holds, on top of what it held at
\* startup, at least what every access() applied since the bootstrap added
Persisted ==
    /\ \A m \in Metrics, k \in KnownPeriods, l \in Labels :
          Cell(new_increments[m], k, l) = 0
    /\ \E s \in InitStores :
          \A m \in Metrics, k \in KnownPeriods, l \in Labels :
             RemoteVal(remote, RedisKey(m, k), l)
               >= RemoteVal(s, RedisKey(m, k), l) + ExpectedInc(applied, m, k, l)

\* C29: the calls of access() and the failures of remote calls being finite
\* in number, under fair scheduling a state is reached from which on nothing
\* is pending and every increment applied since the bootstrap, those of
\* failed flush cycles included, is in the remote store
C29_EventuallyPersisted == <>[]Persisted
\* after a failed cycle and its reconnection everything applied is written
C29_Witness ==
    /\ Persisted
    /\ faults = 1
    /\ fl.outcome = "ok"
    /\ CountEvents(applied) = 2

\* C31: when the converter is invoked on the temporary copy of a local
\* file the copy exists, and the temporary directory is still there while
\* the conversion of a local file is about to run
C31_TempFileExistsAtConversion ==
    /\ (job.pc \in {"returned", "raised"} /\ job.invoked.made /\ ~IsUrl(job.invoked.path)) =>
           job.invoked.existed
    /\ (job.pc \in {"choose", "convert"} /\ ~IsUrl(job.source)) =>
           (TmpDir \in job.dirs /\ job.source \in job.files)

====
